---------------------------- MODULE Spec2Model ----------------------------
(***************************************************************************)
(* Model of the calldata compressor of src/src/compressor.rs: the          *)
(* dictionary index (init_dict), the primitive analyses (check_zeros_case, *)
(* check_copy_case_with_zeros, check_storage_case, analyse), the segment   *)
(* planner (compress_part), the DP optimiser (compress) and the emitter    *)
(* (zip).  Byte offsets are 0-based as in the source; TLA+ sequences are   *)
(* 1-based, so byte n of the input is data[n + 1].                         *)
(***************************************************************************)
EXTENDS Integers, Sequences, FiniteSets, TLC

\* data .. lookup are the fields of Calldata.  op is the last method called
\* on it; result is what the last call returned (NoResult for a method that
\* returns nothing) and best the table best_compress_for_first_n_bytes of
\* the last compress call.  noted is an observer's record of one earlier
\* call (NotNoted while there is none): what the caller kept of it.
VARIABLES data, wallet_addr, contract_addr, bytes_info, dict, lookup,
          best, result, op, noted

vars == <<data, wallet_addr, contract_addr, bytes_info, dict, lookup,
          best, result, op, noted>>

-----------------------------------------------------------------------------
(* Generic helpers                                                         *)

Min(a, b) == IF a < b THEN a ELSE b

Max(a, b) == IF a > b THEN a ELSE b

\* n copies of byte b
Rep(b, n) == [k \in 1..n |-> b]

\* the trailing n bytes of a word (value[value.len() - n..])
TailBytes(w, n) == SubSeq(w, Len(w) - n + 1, Len(w))

\* TLC evaluates the arguments of an operator on demand: Strict(v, e) is e
\* with v evaluated first, so that the accumulator of a loop is a value and
\* not a chain of suspended iterations
Strict(v, e) == IF v = v THEN e ELSE e

Ok(v) == [ok |-> TRUE, val |-> v]

Err(e) == [ok |-> FALSE, err |-> e]

-----------------------------------------------------------------------------
(* CompressDataPower, CompressDataDescription, CompressData                *)

Power(dec, cmp) == [decompressed_size |-> dec, compressed_size |-> cmp]

\* CompressDataPower::range (signed)
range(p) == p.decompressed_size - p.compressed_size

\* CompressDataPower::add
add(p, other) == Power(p.decompressed_size + other.decompressed_size,
                       p.compressed_size + other.compressed_size)

Desc(start, amount, method) ==
    [start_byte |-> start, amount_bytes |-> amount, method |-> method]

CompressData(power, descriptions) ==
    [power |-> power, descriptions |-> descriptions]

\* the method bytes 0x00, 0x01, 0x10, 0x11
MZero == 0

MCopy == 1

MShort == 16

MLong == 17

-----------------------------------------------------------------------------
(* Byte access                                                             *)

\* Calldata::get_bytes
get_bytes(d, start, n) ==
    LET end == Min(start + n, Len(d))
    IN  IF start >= end THEN Err("InvalidRange")
        ELSE Ok(SubSeq(d, start + 1, end))

\* Calldata::get_byte
get_byte(d, n) ==
    LET bytes == get_bytes(d, n, 1)
    IN  IF bytes.ok THEN Ok(bytes.val[1]) ELSE Err("InvalidRange")

\* get_byte(n).is_ok_and(|x| x == 0x00)
IsZeroByte(d, n) ==
    LET byte == get_byte(d, n) IN byte.ok /\ byte.val = 0

-----------------------------------------------------------------------------
(* Dictionary index                                                        *)

\* a variant of insert that keeps the earlier write of a key
insert_if_absent(m, key, i) == m @@ (key :> i)

\* HashMap::insert: a later write of the same key replaces the earlier one
insert(m, key, i) == (key :> i) @@ m

\* the four inserts init_dict makes for the word at index i (0-based)
InsertWord(m, value, i) ==
    insert(insert(insert(insert(m, value, i),
                         TailBytes(value, 4), i),
                  TailBytes(value, 20), i),
           TailBytes(value, 31), i)

\* the loop of init_dict over self.dict: words lo..hi (1-based) inserted in
\* order, the range split in halves to keep the evaluation shallow
RECURSIVE InsertAll(_, _, _, _)
InsertAll(m, dd, lo, hi) ==
    IF lo > hi THEN m
    ELSE IF lo = hi THEN InsertWord(m, dd[lo], lo - 1)
    ELSE LET mid == (lo + hi) \div 2
             left == InsertAll(m, dd, lo, mid)
         IN  Strict(left, InsertAll(left, dd, mid + 1, hi))

\* the dictionary init_dict stores: [wallet, contract] ++ dict
dict_data(w, c, d) == <<w, c>> \o d

\* the HashMap of a freshly constructed Calldata
EmptyLookup == [k \in {} |-> 0]

-----------------------------------------------------------------------------
(* Primitive analyser                                                      *)

\* a variant of ZeroScan whose cap is one byte too long
RECURSIVE ZeroScanLong(_, _, _)
ZeroScanLong(d, n, c) ==
    IF IsZeroByte(d, c) /\ c < Len(d) /\ c - n <= 64
    THEN ZeroScanLong(d, n, c + 1)
    ELSE c

\* the while loop of check_zeros_case: the index it stops at
RECURSIVE ZeroScan(_, _, _)
ZeroScan(d, n, c) ==
    IF IsZeroByte(d, c) /\ c < Len(d) /\ c - n <= 63
    THEN ZeroScan(d, n, c + 1)
    ELSE c

\* a variant of check_zeros_case that stops after the first zero byte
check_zeros_case_single(d, n) ==
    IF ~IsZeroByte(d, n) THEN Power(0, 0) ELSE Power(1, 1)

\* Calldata::check_zeros_case
check_zeros_case(d, n) ==
    IF ~IsZeroByte(d, n) THEN Power(0, 0)
    ELSE Power(ZeroScan(d, n, n + 1) - n, 1)

\* the while loop of check_copy_case_with_zeros: the index it stops at, or
\* -1 when it returns (31, 32) from inside the loop
RECURSIVE CopyScan(_, _, _)
CopyScan(d, n, c) ==
    IF IsZeroByte(d, c) /\ c < Len(d)
    THEN IF c - n = 32 THEN -1 ELSE CopyScan(d, n, c + 1)
    ELSE c

\* Calldata::check_copy_case_with_zeros
check_copy_case_with_zeros(d, n) ==
    IF ~IsZeroByte(d, n) THEN Power(1, 2)
    ELSE LET current_byte_index == CopyScan(d, n, n + 1)
             decompressed_bytes_amount == Min(Len(d) - n, 32)
         IN  IF current_byte_index = -1 THEN Power(31, 32)
             ELSE Power(decompressed_bytes_amount,
                        IF decompressed_bytes_amount = 32
                        THEN 1 + 32 - (current_byte_index - n + 1)
                        ELSE 1 + decompressed_bytes_amount)

\* the greatest dictionary index check_storage_case gives a 2-byte unit
ShortIndexLimit == 4096

\* a variant of StorageLens in ascending order
StorageLensSorted == <<4, 20, 31, 32>>

\* the lengths check_storage_case scans, in its order
StorageLens == <<32, 31, 20, 4>>

\* one iteration of the for loop of check_storage_case
StorageCandidate(d, lk, n, len) ==
    LET tail == get_bytes(d, n, len).val
    IN  IF tail \in DOMAIN lk /\ Len(tail) >= len
        THEN <<Power(len, IF lk[tail] > ShortIndexLimit THEN 3 ELSE 2)>>
        ELSE <<>>

\* a variant of check_storage_case without the test for an empty dictionary
check_storage_case_unguarded(d, dd, lk, n) ==
    Ok(StorageCandidate(d, lk, n, StorageLens[1])
       \o StorageCandidate(d, lk, n, StorageLens[2])
       \o StorageCandidate(d, lk, n, StorageLens[3])
       \o StorageCandidate(d, lk, n, StorageLens[4]))

\* Calldata::check_storage_case
check_storage_case(d, dd, lk, n) ==
    IF dd = <<>> \/ DOMAIN lk = {} THEN Err("DictNotInit")
    ELSE Ok(StorageCandidate(d, lk, n, StorageLens[1])
            \o StorageCandidate(d, lk, n, StorageLens[2])
            \o StorageCandidate(d, lk, n, StorageLens[3])
            \o StorageCandidate(d, lk, n, StorageLens[4]))

\* check_storage_case(i).unwrap_or_default()
unwrap_or_default(r) == IF r.ok THEN r.val ELSE <<>>

ByteInfo(d, dd, lk, i) ==
    [index |-> i,
     zero_compress |-> check_zeros_case(d, i),
     copy_compress |-> check_copy_case_with_zeros(d, i),
     storage_compress |-> unwrap_or_default(check_storage_case(d, dd, lk, i))]

\* the loop of analyse over offsets lo .. hi: the entries it pushes, in
\* order (the range is split in halves to keep the evaluation shallow)
RECURSIVE analyse_range(_, _, _, _, _)
analyse_range(d, dd, lk, lo, hi) ==
    IF lo > hi THEN <<>>
    ELSE IF lo = hi THEN <<ByteInfo(d, dd, lk, lo)>>
    ELSE LET mid == (lo + hi) \div 2
         IN  analyse_range(d, dd, lk, lo, mid)
             \o analyse_range(d, dd, lk, mid + 1, hi)

\* a variant of reset_bytes_info that keeps the table it finds
keep_bytes_info(table) == table

\* self.bytes_info = vec![] on entry to analyse
reset_bytes_info(table) == <<>>

\* Calldata::analyse: the table it leaves in self.bytes_info, given the
\* table it finds there
analyse(table, d, dd, lk) ==
    reset_bytes_info(table) \o analyse_range(d, dd, lk, 0, Len(d) - 1)

-----------------------------------------------------------------------------
(* Segment planner                                                         *)

\* a variant of create_desc that starts every description at from_byte
create_desc_at_from(from_byte, array_desc, amount_bytes, method) ==
    Desc(from_byte, amount_bytes, method)

\* Calldata::create_desc
create_desc(from_byte, array_desc, amount_bytes, method) ==
    LET prev_desc_index == Len(array_desc)
        start_byte == IF array_desc = <<>> THEN from_byte
                      ELSE array_desc[prev_desc_index].start_byte
                           + array_desc[prev_desc_index].amount_bytes
    IN  Desc(start_byte, amount_bytes, method)

\* a variant of add_just_copy_compress without the test amount != 0
add_just_copy_compress_always(from_byte, result_compress, amount) ==
    CompressData(add(result_compress.power, Power(amount, 1 + amount)),
                 Append(result_compress.descriptions,
                        create_desc(from_byte, result_compress.descriptions,
                                    amount, MCopy)))

\* Calldata::add_just_copy_compress
add_just_copy_compress(from_byte, result_compress, amount) ==
    IF amount # 0
    THEN CompressData(add(result_compress.power, Power(amount, 1 + amount)),
                      Append(result_compress.descriptions,
                             create_desc(from_byte, result_compress.descriptions,
                                         amount, MCopy)))
    ELSE result_compress

\* part_compress.power.add(p); part_compress.descriptions.push(create_desc(..))
push_desc(from_byte, part_compress, p, amount, method) ==
    CompressData(add(part_compress.power, p),
                 Append(part_compress.descriptions,
                        create_desc(from_byte, part_compress.descriptions,
                                    amount, method)))

\* method of a committed storage candidate: 0x10 when it costs 2 bytes
storage_method(sc) == IF sc.compressed_size = 2 THEN MShort ELSE MLong

\* the shortcut of compress_part: the zero run at i reaches to_byte
full_zero_run(bi, i, to_byte) ==
    bi[i + 1].zero_compress.decompressed_size > to_byte - i

\* a variant of shortcut_power that counts the bytes from i on
shortcut_power_rest(from_byte, to_byte, i) == Power(to_byte - i + 1, 1)

\* what the shortcut adds to the plan's power
shortcut_power(from_byte, to_byte, i) == Power(to_byte - from_byte + 1, 1)

\* the plan compress_part returns from the shortcut at sweep position i
shortcut_plan(from_byte, to_byte, i, part_compress, just_copy_amount) ==
    LET flushed == add_just_copy_compress(from_byte, part_compress,
                                          just_copy_amount)
    IN  CompressData(add(flushed.power, shortcut_power(from_byte, to_byte, i)),
                     Append(flushed.descriptions,
                            Desc(i, to_byte - i + 1, MZero)))

\* zero_bytes_amount after the candidate selection at i
zero_bytes_amount_at(info, i, to_byte) ==
    IF info.zero_compress.decompressed_size # 0
       /\ (info.copy_compress.decompressed_size > to_byte - i
           \/ range(info.zero_compress) > range(info.copy_compress))
    THEN info.zero_compress.decompressed_size
    ELSE 0

\* is_padding_with_copy after the candidate selection at i
is_padding_with_copy_at(info, i, to_byte) ==
    info.zero_compress.decompressed_size # 0
    /\ ~(info.copy_compress.decompressed_size > to_byte - i
         \/ range(info.zero_compress) > range(info.copy_compress))

\* the for loop over storage_compress: the (1-based) entry it commits and
\* breaks at, or 0 when it runs to the end without committing
RECURSIVE committed_storage(_, _, _, _)
committed_storage(info, i, to_byte, j) ==
    IF j > Len(info.storage_compress) THEN 0
    ELSE LET sc == info.storage_compress[j]
             is_storage_range_more_than_copy_compress ==
                 range(sc) > range(info.copy_compress)
         IN  IF sc.decompressed_size <= to_byte - i + 1
                /\ ~(zero_bytes_amount_at(info, i, to_byte) = 0
                     /\ ~is_storage_range_more_than_copy_compress
                     /\ ~is_padding_with_copy_at(info, i, to_byte))
             THEN j
             ELSE committed_storage(info, i, to_byte, j + 1)

\* the while loop of compress_part is modelled for at most
\* 2^(MaxSweepDoublings + 1) - 1 passes
MaxSweepDoublings == 6

\* the loop state of compress_part: next index, plan, pending raw bytes, and
\* whether the function has returned (part_compress is then the plan returned)
SweepState(i, part_compress, just_copy_amount) ==
    [i |-> i, part_compress |-> part_compress,
     just_copy_amount |-> just_copy_amount, returned |-> FALSE]

Returned(i, part_compress) ==
    [i |-> i, part_compress |-> part_compress,
     just_copy_amount |-> 0, returned |-> TRUE]

\* a variant of commit_storage where a storage candidate that ties with the
\* zero run is emitted
commit_storage_ties(bi, from_byte, to_byte, st, j) ==
    LET i == st.i
        info == bi[i + 1]
        sc == info.storage_compress[j]
        zero_bytes_amount == zero_bytes_amount_at(info, i, to_byte)
        flushed == add_just_copy_compress(from_byte, st.part_compress,
                                          st.just_copy_amount)
    IN  IF zero_bytes_amount > 0
        THEN IF range(sc) >= range(info.zero_compress)
             THEN SweepState(i + sc.decompressed_size,
                      push_desc(from_byte, flushed, sc, sc.decompressed_size,
                                storage_method(sc)), 0)
             ELSE SweepState(i + zero_bytes_amount,
                      push_desc(from_byte, flushed, info.zero_compress,
                                zero_bytes_amount, MZero), 0)
        ELSE IF range(sc) > range(info.copy_compress)
        THEN SweepState(i + sc.decompressed_size,
                 push_desc(from_byte, flushed, sc, sc.decompressed_size,
                           storage_method(sc)), 0)
        ELSE IF is_padding_with_copy_at(info, i, to_byte)
        THEN SweepState(i + info.copy_compress.decompressed_size,
                 push_desc(from_byte, flushed, info.copy_compress,
                           info.copy_compress.decompressed_size, MCopy), 0)
        ELSE SweepState(i, flushed, 0)

\* the body of the storage loop once it commits entry j at position i
commit_storage(bi, from_byte, to_byte, st, j) ==
    LET i == st.i
        info == bi[i + 1]
        sc == info.storage_compress[j]
        zero_bytes_amount == zero_bytes_amount_at(info, i, to_byte)
        flushed == add_just_copy_compress(from_byte, st.part_compress,
                                          st.just_copy_amount)
    IN  IF zero_bytes_amount > 0
        THEN IF range(sc) > range(info.zero_compress)
             THEN SweepState(i + sc.decompressed_size,
                      push_desc(from_byte, flushed, sc, sc.decompressed_size,
                                storage_method(sc)), 0)
             ELSE SweepState(i + zero_bytes_amount,
                      push_desc(from_byte, flushed, info.zero_compress,
                                zero_bytes_amount, MZero), 0)
        ELSE IF range(sc) > range(info.copy_compress)
        THEN SweepState(i + sc.decompressed_size,
                 push_desc(from_byte, flushed, sc, sc.decompressed_size,
                           storage_method(sc)), 0)
        ELSE IF is_padding_with_copy_at(info, i, to_byte)
        THEN SweepState(i + info.copy_compress.decompressed_size,
                 push_desc(from_byte, flushed, info.copy_compress,
                           info.copy_compress.decompressed_size, MCopy), 0)
        ELSE SweepState(i, flushed, 0)

\* a variant of commit_preferred that leaves the index where it is
commit_preferred_stalled(bi, from_byte, to_byte, st) ==
    LET info == bi[st.i + 1]
        flushed == add_just_copy_compress(from_byte, st.part_compress,
                                          st.just_copy_amount)
    IN  SweepState(st.i,
            push_desc(from_byte, flushed, info.copy_compress,
                      info.copy_compress.decompressed_size, MCopy), 0)

\* the !is_storage_compress_used branch when a zero run or a padded copy
\* is preferred
commit_preferred(bi, from_byte, to_byte, st) ==
    LET i == st.i
        info == bi[i + 1]
        zero_bytes_amount == zero_bytes_amount_at(info, i, to_byte)
        flushed == add_just_copy_compress(from_byte, st.part_compress,
                                          st.just_copy_amount)
    IN  IF zero_bytes_amount > 0
        THEN SweepState(i + zero_bytes_amount,
                 push_desc(from_byte, flushed, info.zero_compress,
                           zero_bytes_amount, MZero), 0)
        ELSE SweepState(i + info.copy_compress.decompressed_size,
                 push_desc(from_byte, flushed, info.copy_compress,
                           info.copy_compress.decompressed_size, MCopy), 0)

\* the need_just_copy_amount branch: the byte joins the pending raw copy
accumulate_copy(bi, from_byte, to_byte, st) ==
    LET i == st.i
        new_just_copy_amount ==
            Min(bi[i + 1].copy_compress.decompressed_size, to_byte - i + 1)
        just_copy_amount == st.just_copy_amount + new_just_copy_amount
    IN  IF just_copy_amount > 32
        THEN SweepState(i + new_just_copy_amount,
                 add_just_copy_compress(from_byte, st.part_compress, 32),
                 just_copy_amount - 32)
        ELSE SweepState(i + new_just_copy_amount, st.part_compress,
                        just_copy_amount)

\* one iteration of the while loop of compress_part past the shortcut test
sweep_step(bi, from_byte, to_byte, st) ==
    LET info == bi[st.i + 1]
        j == committed_storage(info, st.i, to_byte, 1)
    IN  IF j # 0 THEN commit_storage(bi, from_byte, to_byte, st, j)
        ELSE IF zero_bytes_amount_at(info, st.i, to_byte) > 0
                \/ is_padding_with_copy_at(info, st.i, to_byte)
        THEN commit_preferred(bi, from_byte, to_byte, st)
        ELSE accumulate_copy(bi, from_byte, to_byte, st)

\* one pass of the while loop of compress_part: the loop test, the shortcut,
\* the body; the final flush and return once the loop test fails
sweep_iter(bi, from_byte, to_byte, st) ==
    IF st.returned THEN st
    ELSE IF st.i > to_byte
    THEN Returned(st.i, add_just_copy_compress(from_byte, st.part_compress,
                                               st.just_copy_amount))
    ELSE IF full_zero_run(bi, st.i, to_byte)
    THEN Returned(st.i, shortcut_plan(from_byte, to_byte, st.i,
                                      st.part_compress, st.just_copy_amount))
    ELSE sweep_step(bi, from_byte, to_byte, st)

\* 2^k passes of the loop, one after the other, stopping at the return
RECURSIVE sweep(_, _, _, _, _)
sweep(bi, from_byte, to_byte, st, k) ==
    IF st.returned THEN st
    ELSE IF k = 0 THEN sweep_iter(bi, from_byte, to_byte, st)
    ELSE LET half == sweep(bi, from_byte, to_byte, st, k - 1)
         IN  Strict(half, sweep(bi, from_byte, to_byte, half, k - 1))

\* 1, 2, 4, .. 2^MaxSweepDoublings passes of the loop, stopping at the
\* return: the last loop state
RECURSIVE sweep_from(_, _, _, _, _)
sweep_from(bi, from_byte, to_byte, st, k) ==
    IF st.returned \/ k > MaxSweepDoublings THEN st
    ELSE LET next == sweep(bi, from_byte, to_byte, st, k)
         IN  Strict(next, sweep_from(bi, from_byte, to_byte, next, k + 1))

\* the while loop of compress_part from its first pass on
sweep_end(bi, from_byte, to_byte) ==
    sweep_from(bi, from_byte, to_byte,
               SweepState(from_byte, CompressData(Power(0, 0), <<>>), 0), 0)

\* Calldata::compress_part
compress_part(bi, from_byte, to_byte) ==
    sweep_end(bi, from_byte, to_byte).part_compress

-----------------------------------------------------------------------------
(* Emitter                                                                 *)

\* a variant of bb in ascending order
bb_sorted == <<4, 20, 31, 32>>

\* the BB selector list of zip
bb == <<32, 20, 4, 31>>

\* bb.iter().position(|&r| r == amount): 0-based, -1 when absent
position(amount) ==
    IF \E k \in 1..Len(bb) : bb[k] = amount
    THEN (CHOOSE k \in 1..Len(bb) : bb[k] = amount) - 1
    ELSE -1

\* BigUint::to_bytes_be: minimal big-endian bytes, [0] for zero
RECURSIVE to_bytes_be(_)
to_bytes_be(v) ==
    IF v < 256 THEN <<v>> ELSE Append(to_bytes_be(v \div 256), v % 256)

\* a variant of first_non_zero that never finds leading zero bytes
first_non_zero_none(copy_bytes, amount, j) == 0

\* the scan of zip for the first non-zero byte of a copy payload
RECURSIVE first_non_zero(_, _, _)
first_non_zero(copy_bytes, amount, j) ==
    IF j >= Min(Len(copy_bytes), amount) THEN 0
    ELSE IF copy_bytes[j + 1] # 0 THEN j
    ELSE first_non_zero(copy_bytes, amount, j + 1)

\* a variant of zero_header that stores the run length itself
zero_header_amount(amount) == amount % 256

\* the byte of a zero unit: 00XXXXXX
zero_header(amount) == (amount - 1) % 256

\* a variant of copy_header that never sets the P bit
copy_header_unpadded(amount, non_zero_byte_index) ==
    ((amount - non_zero_byte_index - 1) + 64) % 256

\* the header byte of a copy unit: 01PXXXXX
copy_header(amount, non_zero_byte_index) ==
    ((amount - non_zero_byte_index - 1) + 64
     + (IF non_zero_byte_index = 0 THEN 0 ELSE 32)) % 256

\* the integer zip emits for a dictionary match of the given method
storage_value(method, index, amount) ==
    IF method = MShort
    THEN index + 2^15 + position(amount) * 2^12
    ELSE index + 3 * 2^22 + position(amount) * 2^20

\* one arm of the match in zip: the bytes emitted for one description
zip_one(d, lk, description) ==
    LET amount == description.amount_bytes
        start == description.start_byte
    IN  CASE description.method = MZero -> Ok(<<zero_header(amount)>>)
          [] description.method = MCopy ->
               LET copy_bytes == get_bytes(d, start, amount)
               IN  IF ~copy_bytes.ok THEN copy_bytes
                   ELSE LET nz == first_non_zero(copy_bytes.val, amount, 0)
                            payload == get_bytes(d, start + nz, amount - nz)
                        IN  IF ~payload.ok THEN payload
                            ELSE Ok(<<copy_header(amount, nz)>> \o payload.val)
          [] description.method \in {MShort, MLong} ->
               LET key == get_bytes(d, start, amount)
               IN  IF ~key.ok THEN key
                   ELSE IF key.val \notin DOMAIN lk THEN Err("LookupNotFound")
                   ELSE IF position(amount) = -1 THEN Err("panic")
                   ELSE Ok(to_bytes_be(storage_value(description.method,
                                                     lk[key.val], amount)))
          [] OTHER -> Err("UnsupportedMethod")

\* the for loop of zip over descriptions lo..hi (1-based): the bytes it
\* emits for them in order, or the first error (the ? operator returns it)
RECURSIVE zip_range(_, _, _, _, _)
zip_range(d, lk, descriptions, lo, hi) ==
    IF lo > hi THEN Ok(<<>>)
    ELSE IF lo = hi THEN zip_one(d, lk, descriptions[lo])
    ELSE LET mid == (lo + hi) \div 2
             left == zip_range(d, lk, descriptions, lo, mid)
         IN  IF ~left.ok THEN left
             ELSE LET right == zip_range(d, lk, descriptions, mid + 1, hi)
                  IN  IF ~right.ok THEN right
                      ELSE Ok(left.val \o right.val)

\* Calldata::zip
zip(d, lk, descriptions) ==
    zip_range(d, lk, descriptions, 1, Len(descriptions))

-----------------------------------------------------------------------------
(* The paired decompressor, from the on-wire grammar of the units          *)

\* what the decompressor yields for a stream it cannot read to its end
Malformed == <<-1>>

\* the integer of the big-endian bytes z[p .. p + n - 1]
RECURSIVE from_bytes_be(_, _, _)
from_bytes_be(z, p, n) ==
    IF n = 0 THEN 0
    ELSE from_bytes_be(z, p, n - 1) * 256 + z[p + n - 1]

\* the trailing bb[BB] bytes of dictionary word I
dict_unit(dd, v, index_bits) ==
    LET BB == (v \div 2^index_bits) % 4
        I == v % 2^index_bits
    IN  IF I + 1 > Len(dd) THEN Malformed ELSE TailBytes(dd[I + 1], bb[BB + 1])

\* the unit at position p of stream z (1-based): its size in the stream
\* and the bytes it expands to
unit_at(z, dd, p) ==
    LET h == z[p]
        tag == h \div 64
        len == (h % 32) + 1
    IN  CASE tag = 0 -> [size |-> 1, bytes |-> Rep(0, (h % 64) + 1)]
          [] tag = 1 ->
               [size |-> 1 + len,
                bytes |-> IF p + len > Len(z) THEN Malformed
                          ELSE IF (h \div 32) % 2 = 1
                          THEN Rep(0, 32 - len) \o SubSeq(z, p + 1, p + len)
                          ELSE SubSeq(z, p + 1, p + len)]
          [] tag = 2 ->
               [size |-> 2,
                bytes |-> IF p + 1 > Len(z) THEN Malformed
                          ELSE dict_unit(dd, from_bytes_be(z, p, 2), 12)]
          [] OTHER ->
               [size |-> 3,
                bytes |-> IF p + 2 > Len(z) THEN Malformed
                          ELSE dict_unit(dd, from_bytes_be(z, p, 3), 20)]

\* the expansion of the units of z from position p on
RECURSIVE decompress_from(_, _, _)
decompress_from(z, dd, p) ==
    IF p > Len(z) THEN <<>>
    ELSE LET u == unit_at(z, dd, p)
         IN  u.bytes \o decompress_from(z, dd, p + u.size)

decompress(z, dd) == decompress_from(z, dd, 1)

-----------------------------------------------------------------------------
(* DP optimiser                                                            *)

\* best_compress_for_first_n_bytes[0]
best_first(bi) ==
    IF bi[1].zero_compress.decompressed_size # 0
    THEN CompressData(Power(1, 1), <<Desc(0, 1, MZero)>>)
    ELSE CompressData(Power(1, 2), <<Desc(0, 1, MCopy)>>)

\* what one more single-byte copy adds to the previous entry's power
seed_power(prev) ==
    Power(prev.decompressed_size + 1, prev.compressed_size + 2)

\* the entry the DP writes at i before scanning the window
\* (tbl is the table so far; tbl[k + 1] is the source's entry k)
dp_seed(tbl, i) ==
    CompressData(seed_power(tbl[i].power),
                 tbl[i].descriptions \o <<Desc(i, 1, MCopy)>>)

\* prefix_compress for a part plan
dp_prefix(tbl, part_compress) ==
    IF part_compress.descriptions[1].start_byte # 0
    THEN tbl[part_compress.descriptions[1].start_byte]
    ELSE CompressData(Power(0, 0), <<>>)

\* a variant of dp_better that lets every candidate replace the entry
dp_better_always(prefix_compress, part_compress, current) == TRUE

\* a variant of dp_better that lets a candidate of equal range replace the
\* entry
dp_better_or_equal(prefix_compress, part_compress, current) ==
    range(prefix_compress.power) + range(part_compress.power)
        >= range(current.power)

\* the test that lets a candidate replace the current entry
dp_better(prefix_compress, part_compress, current) ==
    range(prefix_compress.power) + range(part_compress.power)
        > range(current.power)

\* one iteration of the inner loop: entry i after trying start offset j
dp_try(bi, tbl, current, i, j) ==
    LET part_compress == compress_part(bi, j, i)
        prefix_compress == dp_prefix(tbl, part_compress)
    IN  IF dp_better(prefix_compress, part_compress, current)
        THEN CompressData(add(prefix_compress.power, part_compress.power),
                          prefix_compress.descriptions
                              \o part_compress.descriptions)
        ELSE current

\* a variant of window_low without the window: every start offset is tried
window_low_unbounded(i) == 0

\* the lowest start offset the window of i reaches
window_low(i) == Max(0, i - 63)

\* the inner loop over j from hi down to lo, in that order (the range is
\* split in halves to keep the evaluation shallow)
RECURSIVE dp_scan(_, _, _, _, _, _)
dp_scan(bi, tbl, current, i, hi, lo) ==
    IF hi < lo THEN current
    ELSE IF hi = lo THEN dp_try(bi, tbl, current, i, hi)
    ELSE LET mid == (lo + hi) \div 2
             upper == dp_scan(bi, tbl, current, i, hi, mid + 1)
         IN  Strict(upper, dp_scan(bi, tbl, upper, i, mid, lo))

\* entry i of the table: the seed, then j from i down to max(0, i - 63)
dp_entry(bi, tbl, i) == dp_scan(bi, tbl, dp_seed(tbl, i), i, i, window_low(i))

\* the outer loop over i from lo to hi, in that order
RECURSIVE dp_table(_, _, _, _)
dp_table(bi, tbl, lo, hi) ==
    IF lo > hi THEN tbl
    ELSE IF lo = hi THEN Append(tbl, dp_entry(bi, tbl, lo))
    ELSE LET mid == (lo + hi) \div 2
             left == dp_table(bi, tbl, lo, mid)
         IN  Strict(left, dp_table(bi, left, mid + 1, hi))

\* best_compress_for_first_n_bytes when the loops of compress end
best_table(bi) ==
    Strict(bi, dp_table(bi, <<best_first(bi)>>, 1, Len(bi) - 1))

\* the CompressResult compress builds, or the error zip returned
compress_result(d, lk, tbl) ==
    LET last == tbl[Len(tbl)]
        zipped == zip(d, lk, last.descriptions)
    IN  IF ~zipped.ok THEN zipped
        ELSE Ok([uncompressed_data |-> d,
                 compressed_data |-> zipped.val,
                 power |-> last.power,
                 description |-> last.descriptions])

-----------------------------------------------------------------------------
(* Inputs                                                                  *)

\* longest all-zero input
MaxZeros == 66

\* longest input enumerated byte by byte over ShortBytes
MaxShortLen == 3

ZeroWord == Rep(0, 32)

\* 32 bytes of 0x11
W11 == Rep(17, 32)

\* an address: 12 zero bytes, 20 bytes of 0x22
WAddr == Rep(0, 12) \o Rep(34, 20)

\* a small number: 28 zero bytes, then 01 02 03 04
WSel == Rep(0, 28) \o <<1, 2, 3, 4>>

\* 32 bytes of 0x33
W33 == Rep(51, 32)

Wallets == {ZeroWord, W11}

Contracts == {ZeroWord}

UserDicts == {<<>>, <<WAddr, WSel>>}

ShortBytes == {0, 170}

\* every byte string over ShortBytes of length 1 .. MaxShortLen
ShortInputs ==
    UNION {[1..n -> ShortBytes] : n \in 1..MaxShortLen}

\* the all-zero inputs of length 1 .. MaxZeros
ZeroInputs == {Rep(0, n) : n \in 1..MaxZeros}

\* pieces of structured calldata: zero runs around the cap of the copy
\* primitive, a left-padded 32-byte word, the tails of dictionary words
\* (raw runs of 31 and 32 bytes when the word is not in the dictionary)
Blocks ==
    {Rep(0, 31), Rep(0, 33), Rep(0, 31) \o <<32>>, TailBytes(WSel, 4),
     TailBytes(WAddr, 20), TailBytes(W11, 31), W11}

\* what follows a block
Suffixes == {<<>>, <<0>>, <<170>>, TailBytes(WSel, 4)}

\* what precedes a block
Prefixes == {<<0>>, <<170>>}

StructuredInputs ==
    {a \o b : a \in Blocks, b \in Suffixes}
        \cup {a \o b : a \in Prefixes, b \in Blocks}

\* the inputs of Spec: the short and the structured ones, and the all-zero
\* inputs around the cap of the zero run
Inputs ==
    ShortInputs \cup StructuredInputs
        \cup {Rep(0, n) : n \in (MaxZeros - 1)..MaxZeros}

\* scenario 1: five 32-byte words 0x20, 0x40, 0x01, 0x08, "myString"
Scenario1 ==
    Rep(0, 31) \o <<32>> \o Rep(0, 31) \o <<64>> \o Rep(0, 31) \o <<1>>
        \o Rep(0, 31) \o <<8>>
        \o <<109, 121, 83, 116, 114, 105, 110, 103>> \o Rep(0, 24)

\* the dictionary of scenario 1: 1000 zero words
ZeroDict == [k \in 1..1000 |-> ZeroWord] \o <<>>

\* a user dictionary that puts WAddr at index ShortIndexLimit of the
\* effective dictionary, WSel right after it and W33 right before it
LongDict ==
    [k \in 1..(ShortIndexLimit - 3) |-> ZeroWord] \o <<W33, WAddr, WSel>>

LargeDicts == {ZeroDict, LongDict}

\* the inputs of SpecLarge
LargeInputs ==
    {Scenario1, WAddr, WSel, W33, TailBytes(WAddr, 20), TailBytes(WSel, 4),
     TailBytes(W33, 31), WAddr \o WSel, <<170>> \o TailBytes(WAddr, 20),
     TailBytes(WSel, 4) \o <<170>>, W33 \o TailBytes(WSel, 4)}

\* a left-padded small number: 31 zero bytes, then 0x20
WPad == Rep(0, 31) \o <<32>>

\* user dictionaries of one word that starts with zero bytes
SelectDicts == {<<WPad>>, <<WSel>>}

\* the inputs of SpecSelect: the tails of those words that are dictionary
\* keys, alone and followed by a byte, and a zero run that many plans of
\* the same range cover
SelectInputs ==
    {TailBytes(w, n) \o b : w \in {WPad, WSel}, n \in {4, 20, 31, 32},
                            b \in {<<>>, <<170>>}}
        \cup {Rep(0, 65)}

-----------------------------------------------------------------------------
(* The Calldata object and its methods                                     *)

\* what a method returning () leaves in result
NoResult == [ok |-> TRUE, val |-> [unit |-> TRUE]]

NotNoted == [op |-> "none"]

\* what an observer keeps of the call that led to the current state
Snapshot ==
    [op |-> op, data |-> data, dict |-> dict, lookup |-> lookup,
     bytes_info |-> bytes_info, result |-> result]

\* at a call the observer keeps what the call before it left, or what it
\* had kept already
Observe == noted' \in {noted, Snapshot}

\* Calldata::new
New(x, w, c) ==
    /\ data = x
    /\ wallet_addr = w
    /\ contract_addr = c
    /\ bytes_info = <<>>
    /\ dict = <<>>
    /\ lookup = EmptyLookup
    /\ best = <<>>
    /\ result = NoResult
    /\ op = "new"
    /\ noted = NotNoted

Init == \E x \in Inputs, w \in Wallets, c \in Contracts : New(x, w, c)

\* Calldata::init_dict: the index is written over the one already there
init_dict(d) ==
    /\ dict' = dict_data(wallet_addr, contract_addr, d)
    /\ lookup' = InsertAll(lookup, dict', 1, Len(dict'))
    /\ op' = "init_dict"
    /\ result' = NoResult
    /\ best' = <<>>
    /\ UNCHANGED <<data, wallet_addr, contract_addr, bytes_info>>

\* Calldata::analyse
analyse_call ==
    /\ bytes_info' = analyse(bytes_info, data, dict, lookup)
    /\ op' = "analyse"
    /\ result' = NoResult
    /\ best' = <<>>
    /\ UNCHANGED <<data, wallet_addr, contract_addr, dict, lookup>>

\* Calldata::compress
compress ==
    /\ bytes_info' = analyse(bytes_info, data, dict, lookup)
    /\ best' = best_table(bytes_info')
    /\ result' = compress_result(data, lookup, best')
    /\ op' = "compress"
    /\ UNCHANGED <<data, wallet_addr, contract_addr, dict, lookup>>

InitDict(d) == init_dict(d) /\ UNCHANGED noted

Analyse == analyse_call /\ UNCHANGED noted

Compress == compress /\ UNCHANGED noted

Next ==
    \/ \E d \in UserDicts : InitDict(d)
    \/ Analyse
    \/ Compress

Spec == Init /\ [][Next]_vars

\* the all-zero inputs, every length up to MaxZeros
InitZeros ==
    \E x \in ZeroInputs, w \in Wallets, c \in Contracts : New(x, w, c)

SpecZeros == InitZeros /\ [][Next]_vars

\* large dictionaries: scenario 1 and indices around ShortIndexLimit
InitLarge == \E x \in LargeInputs : New(x, ZeroWord, ZeroWord)

NextLarge ==
    \/ \E d \in LargeDicts : InitDict(d)
    \/ Analyse
    \/ Compress

SpecLarge == InitLarge /\ [][NextLarge]_vars

\* repeated calls on one Calldata, an observer keeping one of them
CallInputs ==
    ShortInputs
        \cup {TailBytes(WSel, 4), TailBytes(WAddr, 20), Rep(0, 31) \o <<32>>}

InitCalls ==
    \E x \in CallInputs, w \in Wallets, c \in Contracts : New(x, w, c)

AnalyseObserved == analyse_call /\ Observe

CompressObserved == compress /\ Observe

NextCalls ==
    \/ \E d \in UserDicts : InitDict(d)
    \/ AnalyseObserved
    \/ CompressObserved

SpecCalls == InitCalls /\ [][NextCalls]_vars

\* a variant of facade_lookup: one index shared by all invocations
shared_lookup == lookup

\* a caller's query check_storage_case(n) at an offset of the input
CheckStorage(n) ==
    /\ result' = check_storage_case(data, dict, lookup, n)
    /\ op' = "check_storage_case"
    /\ UNCHANGED <<data, wallet_addr, contract_addr, bytes_info, dict, lookup,
                   best, noted>>

\* the storage analysis queried before and after init_dict
NextQueries ==
    \/ \E d \in UserDicts : InitDict(d)
    \/ \E n \in 0..(Len(data) - 1) : CheckStorage(n)

SpecQueries == InitCalls /\ [][NextQueries]_vars

\* a call compress_part(from_byte, to_byte) in progress: its arguments and
\* the loop state of its sweep
Frame(from_byte, to_byte, st) ==
    Ok([from_byte |-> from_byte, to_byte |-> to_byte, sweep |-> st])

\* a call of compress_part has begun and has not returned
Sweeping == op = "compress_part" /\ ~result.val.sweep.returned

\* Calldata::compress_part is entered: the loop state before the first pass
CompressPart(from_byte, to_byte) ==
    /\ ~Sweeping
    /\ to_byte < Len(bytes_info)
    /\ op' = "compress_part"
    /\ result' = Frame(from_byte, to_byte,
                       SweepState(from_byte,
                                  CompressData(Power(0, 0), <<>>), 0))
    /\ UNCHANGED <<data, wallet_addr, contract_addr, bytes_info, dict, lookup,
                   best, noted>>

\* one pass of the while loop of the call in progress, or its return
SweepPass ==
    /\ Sweeping
    /\ result' = Frame(result.val.from_byte, result.val.to_byte,
                       sweep_iter(bytes_info, result.val.from_byte,
                                  result.val.to_byte, result.val.sweep))
    /\ UNCHANGED <<data, wallet_addr, contract_addr, bytes_info, dict, lookup,
                   best, op, noted>>

\* compress_part run pass by pass; the other methods are called between
\* two calls of it, never while one is running (it borrows the Calldata)
NextSweep ==
    \/ ~Sweeping /\ \E d \in UserDicts : InitDict(d)
    \/ ~Sweeping /\ Analyse
    \/ ~Sweeping /\ Compress
    \/ \E to_byte \in 0..(Len(data) - 1) :
           \E from_byte \in 0..to_byte : CompressPart(from_byte, to_byte)
    \/ SweepPass

\* short inputs for the pass-by-pass run: a dictionary match, zero runs
\* and raw bytes in one part
SweepInputs ==
    ShortInputs
        \cup {TailBytes(WSel, 4) \o <<0, 0, 170>>,
              <<170>> \o Rep(0, 5) \o TailBytes(WSel, 4) \o <<170, 170>>}

InitSweep == \E x \in SweepInputs : New(x, W11, ZeroWord)

\* a call that has begun keeps running
SpecSweep == InitSweep /\ [][NextSweep]_vars /\ WF_vars(SweepPass)

\* inputs whose zero runs, padded copies and dictionary matches compete
InitSelect == \E x \in SelectInputs : New(x, W11, ZeroWord)

NextSelect ==
    \/ \E d \in SelectDicts : InitDict(d)
    \/ Analyse
    \/ Compress

SpecSelect == InitSelect /\ [][NextSelect]_vars

\* the lookup of the Calldata one invocation of the facade constructs
facade_lookup == EmptyLookup

\* the facade compress(calldata, wallet_addr, contract_addr, dict): new,
\* init_dict and compress on a Calldata of its own; the variables hold the
\* Calldata of the latest invocation
Facade(x, w, c, d) ==
    /\ data' = x
    /\ wallet_addr' = w
    /\ contract_addr' = c
    /\ dict' = dict_data(w, c, d)
    /\ lookup' = InsertAll(facade_lookup, dict', 1, Len(dict'))
    /\ bytes_info' = analyse(<<>>, x, dict', lookup')
    /\ best' = best_table(bytes_info')
    /\ result' = compress_result(x, lookup', best')
    /\ op' = "compress"
    /\ Observe

\* the blobs given to the facade
FacadeInputs ==
    {<<0>>, <<170, 0>>, TailBytes(WSel, 4), <<170>> \o TailBytes(WAddr, 20)}

\* before the first invocation there is no Calldata
InitFacade == New(<<>>, ZeroWord, ZeroWord)

NextFacade ==
    \E x \in FacadeInputs, w \in Wallets, c \in Contracts, d \in UserDicts :
        Facade(x, w, c, d)

SpecFacade == InitFacade /\ [][NextFacade]_vars

-----------------------------------------------------------------------------
(* Properties                                                              *)

\* the index is the one a single init_dict builds on a new Calldata, as in
\* the facade
Indexed ==
    dict # <<>> /\ lookup = InsertAll(EmptyLookup, dict, 1, Len(dict))

\* the last call was compress and it returned Ok
Compressed == op = "compress" /\ result.ok

AllZero(x) == \A k \in 1..Len(x) : x[k] = 0

\* the descriptions of entry k of the DP table (1-based)
BestDescriptions(k) == best[k].descriptions

\* C1: round trip.  Decoding the compressed output of the facade over the
\* effective dictionary [wallet, contract] ++ dict yields the input.
C1_RoundTrip ==
    (Compressed /\ Indexed)
        => decompress(result.val.compressed_data, dict) = data

\* descriptions tile [0, n): the first starts at 0, each later one starts
\* where the one before it ends, every amount is >= 1, the last ends at n
Tiles(descriptions, n) ==
    /\ descriptions # <<>>
    /\ descriptions[1].start_byte = 0
    /\ \A k \in 2..Len(descriptions) :
           descriptions[k].start_byte
               = descriptions[k - 1].start_byte
                     + descriptions[k - 1].amount_bytes
    /\ \A k \in 1..Len(descriptions) : descriptions[k].amount_bytes >= 1
    /\ descriptions[Len(descriptions)].start_byte
           + descriptions[Len(descriptions)].amount_bytes = n

RECURSIVE SumAmounts(_, _)
SumAmounts(descriptions, k) ==
    IF k = 0 THEN 0
    ELSE SumAmounts(descriptions, k - 1) + descriptions[k].amount_bytes

\* C2: the description list compress returns tiles [0, N) exactly, and its
\* amounts sum to N.
C2_Tiling ==
    Compressed
        => /\ Tiles(result.val.description, Len(data))
           /\ SumAmounts(result.val.description,
                         Len(result.val.description)) = Len(data)

\* compress returned a plan of three descriptions or more, over a
\* dictionary
C2_Witness ==
    Compressed /\ Indexed /\ Len(result.val.description) >= 3

\* C3: entry k of the DP table has power.decompressed_size = k + 1 (the
\* table is 1-based here), and the power compress returns has
\* decompressed_size = N.
C3_DecompressedSize ==
    op = "compress"
        => /\ \A k \in 1..Len(best) : best[k].power.decompressed_size = k
           /\ result.ok => result.val.power.decompressed_size = Len(data)

\* C4: the compressed output has as many bytes as the returned
\* power.compressed_size.
C4_CompressedSize ==
    Compressed
        => Len(result.val.compressed_data) = result.val.power.compressed_size

\* the length caps of a description
WithinCaps(description) ==
    CASE description.method = MZero -> description.amount_bytes \in 1..64
      [] description.method = MCopy -> description.amount_bytes \in 1..32
      [] description.method \in {MShort, MLong} ->
           description.amount_bytes \in {4, 20, 31, 32}
      [] OTHER -> FALSE

AllWithinCaps(descriptions) ==
    \A m \in 1..Len(descriptions) : WithinCaps(descriptions[m])

\* C5: every description of every DP entry, and of the plan compress_part
\* makes for every range of the input, respects the length caps and uses
\* one of the four methods.
C5_LengthCaps ==
    op = "compress"
        => /\ \A k \in 1..Len(best) : AllWithinCaps(BestDescriptions(k))
           /\ \A to_byte \in 0..(Len(data) - 1) :
                  \A from_byte \in 0..to_byte :
                      AllWithinCaps(compress_part(bytes_info, from_byte,
                                                  to_byte).descriptions)

\* the DP table holds a zero run of the full 64 bytes
C5_Witness ==
    /\ op = "compress"
    /\ \E k \in 1..Len(best) :
           \E m \in 1..Len(BestDescriptions(k)) :
               /\ BestDescriptions(k)[m].method = MZero
               /\ BestDescriptions(k)[m].amount_bytes = 64

\* C6: dominance.  Entry i of the DP table is never worse in range than
\* entry i - 1 extended by a single-byte copy.
C6_Dominance ==
    op = "compress"
        => \A i \in 2..Len(best) :
               range(best[i].power) >= range(best[i - 1].power) - 1

\* an entry that is exactly the previous one extended by a single-byte copy
C6_Witness ==
    /\ op = "compress"
    /\ \E i \in 2..Len(best) :
           range(best[i].power) = range(best[i - 1].power) - 1

\* C7: idempotence.  A call of analyse or compress on a Calldata on which
\* the same method was called before, with the same dictionary and index,
\* leaves the same ByteInfo table and returns the same result.
C7_Idempotent ==
    (noted.op = op /\ op \in {"analyse", "compress"}
        /\ noted.dict = dict /\ noted.lookup = lookup)
        => bytes_info = noted.bytes_info /\ result = noted.result

\* compress was called a second time over a dictionary and returned a plan;
\* analyse was called before it, so the table was not empty on entry
C7_Witness ==
    /\ noted.op = "compress" /\ op = "compress"
    /\ noted.dict = dict /\ noted.lookup = lookup
    /\ Indexed /\ result.ok
    /\ Len(bytes_info) >= 2

\* C8: determinism of the facade.  An invocation with the arguments of an
\* earlier one returns what the earlier one returned.
C8_Deterministic ==
    (noted.op = "compress" /\ op = "compress"
        /\ noted.data = data /\ noted.dict = dict)
        => result = noted.result

\* an invocation repeated with a user dictionary, returning a dictionary
\* unit
C8_Witness ==
    /\ noted.op = "compress" /\ op = "compress"
    /\ noted.data = data /\ noted.dict = dict
    /\ result.ok
    /\ \E m \in 1..Len(result.val.description) :
           result.val.description[m].method = MShort

\* the compressed bytes test_compress_small expects
Scenario1Compressed ==
    <<96, 32, 0, 97, 64, 0, 29, 64, 1, 0, 97, 8,
      109, 70, 121, 83, 116, 114, 105, 110, 103, 23>>

\* the facade was given scenario 1
Scenario1Run ==
    /\ op = "compress"
    /\ data = Scenario1
    /\ dict = dict_data(ZeroWord, ZeroWord, ZeroDict)
    /\ Indexed

\* C9: on scenario 1 compress succeeds and returns exactly the 22 bytes
\* 6020006140001d40010061086d4679537472696e6717.
C9_Scenario1 ==
    Scenario1Run
        => result.ok /\ result.val.compressed_data = Scenario1Compressed

C9_Witness ==
    Scenario1Run /\ result.ok /\ Len(result.val.compressed_data) = 22

\* C10: on N zero bytes, 1 <= N <= 64, compress returns the one
\* description (0, N, 0x00) and the single byte N - 1.
C10_ZeroRun ==
    (op = "compress" /\ AllZero(data) /\ Len(data) <= 64)
        => /\ result.ok
           /\ result.val.description = <<Desc(0, Len(data), MZero)>>
           /\ result.val.compressed_data = <<Len(data) - 1>>

\* 64 zero bytes over a user dictionary: the byte 3f
C10_Witness ==
    /\ op = "compress" /\ AllZero(data) /\ Len(data) = 64
    /\ Indexed /\ Len(dict) > 2
    /\ result.ok /\ result.val.compressed_data = <<63>>

\* the facade was given 32 bytes of 0x11 as input and as wallet, a zero
\* contract and an empty user dictionary
WalletHitRun ==
    /\ op = "compress"
    /\ data = W11
    /\ dict = dict_data(W11, ZeroWord, <<>>)
    /\ Indexed

\* C11: dictionary hit on the wallet.  With wallet = 32 x 0x11, a zero
\* contract, an empty user dictionary and input = 32 x 0x11, compress
\* returns the one description (0, 32, 0x10) and the two bytes 80 00.
C11_WalletHit ==
    WalletHitRun
        => /\ result.ok
           /\ result.val.description = <<Desc(0, 32, MShort)>>
           /\ result.val.compressed_data = <<128, 0>>

C11_Witness ==
    WalletHitRun /\ result.ok /\ Len(result.val.compressed_data) = 2

\* the key lengths init_dict admits
KeyLens == {32, 31, 20, 4}

\* the trailing slices of the words of dd, of every admitted length
DictKeys(dd) == {TailBytes(dd[k], n) : k \in 1..Len(dd), n \in KeyLens}

\* i is the greatest (0-based) index of a word of dd whose trailing slice of
\* the length of key is key
IsLastIndexOf(dd, key, i) ==
    /\ i \in 0..(Len(dd) - 1)
    /\ TailBytes(dd[i + 1], Len(key)) = key
    /\ \A j \in (i + 1)..(Len(dd) - 1) :
           TailBytes(dd[j + 1], Len(key)) # key

\* lk is the index of dd the claim describes
IsIndexOf(lk, dd) ==
    /\ DOMAIN lk = DictKeys(dd)
    /\ \A key \in DOMAIN lk : IsLastIndexOf(dd, key, lk[key])

\* C12: init_dict on a freshly constructed Calldata leaves the dictionary
\* [wallet, contract] ++ dict, and a lookup whose keys are exactly the
\* trailing 32-, 31-, 20- and 4-byte slices of its words, each mapped to
\* the greatest index of a word with that slice.
C12_InitDictIndex ==
    [][(dict = <<>> /\ lookup = EmptyLookup /\ op' = "init_dict")
           => /\ \E d \in LargeDicts :
                     dict' = <<wallet_addr, contract_addr>> \o d
              /\ IsIndexOf(lookup', dict')]_vars

\* a first init_dict with the long dictionary: the zero words collide, the
\* last of them is word ShortIndexLimit - 2
C12_Witness ==
    /\ op = "init_dict"
    /\ dict = dict_data(ZeroWord, ZeroWord, LongDict)
    /\ Indexed
    /\ lookup[ZeroWord] = ShortIndexLimit - 2
    /\ lookup[WSel] = ShortIndexLimit + 1

\* a description names a supported method, lies inside [0, n) and, when
\* it is a dictionary match, covers bytes that are a key of lk
Emittable(d, lk, description) ==
    /\ description.method \in {MZero, MCopy, MShort, MLong}
    /\ description.amount_bytes >= 1
    /\ description.start_byte >= 0
    /\ description.start_byte + description.amount_bytes <= Len(d)
    /\ description.method \in {MShort, MLong}
           => SubSeq(d, description.start_byte + 1,
                     description.start_byte + description.amount_bytes)
                  \in DOMAIN lk

\* C13: the facade returns Ok for every input of one byte or more and every
\* wallet, contract and user dictionary, and every description of the plan
\* it emits has a supported method, lies inside the input and, when a
\* dictionary match, covers a key of the lookup.
C13_FacadeSucceeds ==
    (op = "compress" /\ Indexed)
        => /\ result.ok
           /\ \A m \in 1..Len(best[Len(best)].descriptions) :
                  Emittable(data, lookup, best[Len(best)].descriptions[m])

\* the facade returned Ok with the empty user dictionary, the plan holding
\* a dictionary match and a copy
C13_Witness ==
    /\ op = "compress" /\ Indexed /\ Len(dict) = 2
    /\ result.ok
    /\ \E m \in 1..Len(result.val.description) :
           result.val.description[m].method = MShort
    /\ \E m \in 1..Len(result.val.description) :
           result.val.description[m].method = MCopy

\* C14: check_storage_case returns DictNotInit, and no candidate list, on a
\* Calldata on which init_dict was not called; once init_dict was called
\* it returns a candidate list.
C14_DictNotInit ==
    op = "check_storage_case"
        => IF dict = <<>> THEN result = Err("DictNotInit") ELSE result.ok

\* the query was made before init_dict and returned an error
C14_Witness ==
    op = "check_storage_case" /\ dict = <<>> /\ ~result.ok

\* C15: an error raised inside a compress call is the result of the call;
\* compress on a Calldata on which init_dict was not called returns the
\* DictNotInit error of the storage analysis.
C15_DictNotInitSurfaced ==
    (op = "compress" /\ dict = <<>>) => result = Err("DictNotInit")

\* the bytes z are a dictionary unit of the grammar for the given method,
\* selector position and dictionary index: 10BBXXXX XXXXXXXX for 0x10,
\* 11BBXXXX XXXXXXXX XXXXXXXX for 0x11
IsDictUnit(method, z, bb_pos, index) ==
    IF method = MShort
    THEN /\ Len(z) = 2
         /\ z[1] \div 64 = 2
         /\ (z[1] \div 16) % 4 = bb_pos
         /\ (z[1] % 16) * 256 + z[2] = index
    ELSE /\ Len(z) = 3
         /\ z[1] \div 64 = 3
         /\ (z[1] \div 16) % 4 = bb_pos
         /\ (z[1] % 16) * 65536 + z[2] * 256 + z[3] = index

\* the bytes a description covers
Covered(d, description) ==
    SubSeq(d, description.start_byte + 1,
           description.start_byte + description.amount_bytes)

\* C16: for every dictionary-match description of a plan compress returns,
\* the method is 0x10 exactly when the matched index is <= 4096, and zip
\* emits for it a unit of the grammar: 2 (resp. 3) bytes, tag bits 10
\* (resp. 11), the BB bits the position of amount_bytes in [32, 20, 4, 31],
\* the other 12 (resp. 20) bits the dictionary index.
C16_DictUnitLayout ==
    Compressed
        => \A m \in 1..Len(result.val.description) :
               LET description == result.val.description[m]
                   index == lookup[Covered(data, description)]
                   unit == zip_one(data, lookup, description)
               IN  description.method \in {MShort, MLong}
                       => /\ description.method = MShort
                                 <=> index <= ShortIndexLimit
                          /\ unit.ok
                          /\ IsDictUnit(description.method, unit.val,
                                        position(description.amount_bytes),
                                        index)

\* the last call ran the analyser: bytes_info is the table of data
Analysed == op \in {"analyse", "compress"}

\* the length of the maximal run of zero bytes of d starting at offset i
ZeroRun(d, i) ==
    CHOOSE run \in 0..(Len(d) - i) :
        /\ \A k \in (i + 1)..(i + run) : d[k] = 0
        /\ i + run = Len(d) \/ d[i + run + 1] # 0

\* C17: zero-run analysis.  At every offset i the analyser records (0, 0)
\* when B[i] # 0 and otherwise (L, 1) with L the length of the maximal run
\* of zero bytes starting at i, capped at 64; L is in 1..64 and at most N-i.
C17_ZeroRunAnalysis ==
    Analysed
        => \A i \in 0..(Len(data) - 1) :
               LET power == bytes_info[i + 1].zero_compress
               IN  IF data[i + 1] # 0
                   THEN power = Power(0, 0)
                   ELSE /\ power = Power(Min(ZeroRun(data, i), 64), 1)
                        /\ power.decompressed_size \in 1..Min(64, Len(data) - i)

\* the analyser met a run of more than 64 zero bytes and cut it at 64, and
\* a shorter run of the same input that it did not cut
C17_Witness ==
    /\ Analysed
    /\ \E i \in 0..(Len(data) - 1) :
           /\ ZeroRun(data, i) > 64
           /\ bytes_info[i + 1].zero_compress = Power(64, 1)
    /\ \E i \in 0..(Len(data) - 1) :
           /\ ZeroRun(data, i) \in 1..63
           /\ bytes_info[i + 1].zero_compress = Power(ZeroRun(data, i), 1)

\* C18: copy analysis.  At every offset i the analyser records (1, 2) when
\* B[i] # 0; otherwise, with Z the number of consecutive zero bytes at i and
\* L = min(N - i, 32), it records (L, 1 + L - Z) when L = 32 and (L, 1 + L)
\* when L < 32.  (A block of 32 zero bytes is the case of the fallback and
\* is left to C19.)
C18_CopyAnalysis ==
    Analysed
        => \A i \in 0..(Len(data) - 1) :
               LET power == bytes_info[i + 1].copy_compress
                   Z == ZeroRun(data, i)
                   L == Min(Len(data) - i, 32)
               IN  IF data[i + 1] # 0
                   THEN power = Power(1, 2)
                   ELSE Z < 32
                            => power = Power(L, IF L = 32 THEN 1 + L - Z
                                                ELSE 1 + L)

\* C19: copy fallback.  At every offset i whose 32 bytes B[i..i+32) exist
\* and are all zero, the analyser records (31, 32).
C19_CopyFallback ==
    Analysed
        => \A i \in 0..(Len(data) - 32) :
               ZeroRun(data, i) >= 32
                   => bytes_info[i + 1].copy_compress = Power(31, 32)

\* the len bytes of d from offset i exist and are a key of the lookup lk
IsKeyAt(d, lk, i, len) ==
    i + len <= Len(d) /\ SubSeq(d, i + 1, i + len) \in DOMAIN lk

\* the lengths of <<32, 31, 20, 4>>, in that order, that are keys at i
KeyLensAt(d, lk, i) ==
    SelectSeq(<<32, 31, 20, 4>>, LAMBDA len : IsKeyAt(d, lk, i, len))

\* the list of candidates claimed for offset i
StorageList(d, lk, i) ==
    LET lens == KeyLensAt(d, lk, i)
    IN  [k \in 1..Len(lens) |->
            Power(lens[k],
                  IF lk[SubSeq(d, i + 1, i + lens[k])] <= 4096
                  THEN 2 ELSE 3)] \o <<>>

\* C20: dictionary-match analysis.  After init_dict, the list recorded at
\* every offset i is the one obtained by scanning len = 32, 31, 20, 4 in
\* that order and appending (len, 2) when i + len <= N and B[i..i+len) is a
\* lookup key of index <= 4096, (len, 3) when the index is > 4096, nothing
\* otherwise; it has at most four entries, and check_storage_case returns
\* Ok at every offset.
C20_StorageAnalysis ==
    /\ (Analysed /\ dict # <<>>)
           => \A i \in 0..(Len(data) - 1) :
                  /\ bytes_info[i + 1].storage_compress
                         = StorageList(data, lookup, i)
                  /\ Len(bytes_info[i + 1].storage_compress) <= 4
    /\ dict # <<>>
           => \A i \in 0..(Len(data) - 1) :
                  check_storage_case(data, dict, lookup, i).ok

\* the analyser recorded a list of four entries at one offset, and at one
\* offset a 3-byte candidate while the longer reads there run past N and
\* their truncated bytes are a key
C20_Witness ==
    /\ Analysed /\ dict # <<>>
    /\ \E i \in 0..(Len(data) - 1) :
           Len(bytes_info[i + 1].storage_compress) = 4
    /\ \E i \in 0..(Len(data) - 1) :
           /\ bytes_info[i + 1].storage_compress = <<Power(4, 3)>>
           /\ i + 20 > Len(data)
           /\ SubSeq(data, i + 1, Len(data)) \in DOMAIN lookup

\* the power of a plan counts the bytes its descriptions cover
CountsItsBytes(plan) ==
    plan.power.decompressed_size
        = SumAmounts(plan.descriptions, Len(plan.descriptions))

\* C21: plan invariant.  For every 0 <= from <= to < N the plan
\* compress_part(from, to) returns has power.decompressed_size equal to the
\* sum of amount_bytes over its descriptions, and so has every DP entry.
C21_PlanInvariant ==
    op = "compress"
        => /\ \A k \in 1..Len(best) : CountsItsBytes(best[k])
           /\ \A to_byte \in 0..(Len(data) - 1) :
                  \A from_byte \in 0..to_byte :
                      CountsItsBytes(compress_part(bytes_info, from_byte,
                                                   to_byte))

\* the loop state of compress_part(from_byte, to_byte) at the first sweep
\* position where the zero run reaches to_byte, or at the end of the range
RECURSIVE ShortcutState(_, _, _, _)
ShortcutState(bi, from_byte, to_byte, st) ==
    IF st.i > to_byte \/ full_zero_run(bi, st.i, to_byte) THEN st
    ELSE ShortcutState(bi, from_byte, to_byte,
                       sweep_step(bi, from_byte, to_byte, st))

FirstShortcut(bi, from_byte, to_byte) ==
    ShortcutState(bi, from_byte, to_byte,
                  SweepState(from_byte, CompressData(Power(0, 0), <<>>), 0))

\* what the claim says compress_part returns once the sweep is in state st
\* at a position where the zero run reaches to_byte
TakesShortcut(bi, from_byte, to_byte, st) ==
    LET plan == compress_part(bi, from_byte, to_byte)
        k == st.just_copy_amount
    IN  /\ plan.descriptions
               = st.part_compress.descriptions
                     \o (IF k > 0 THEN <<Desc(st.i - k, k, MCopy)>> ELSE <<>>)
                     \o <<Desc(st.i, to_byte - st.i + 1, MZero)>>
        /\ plan.power
               = add(add(st.part_compress.power,
                         IF k > 0 THEN Power(k, 1 + k) ELSE Power(0, 0)),
                     Power(to_byte - from_byte + 1, 1))

\* C22: full zero-run shortcut.  In compress_part(from, to), at the first
\* sweep position i whose zero run is longer than to - i, the planner
\* flushes the k pending raw bytes (if any) as one 0x01 description with
\* Power(k, 1 + k), appends one 0x00 description (i, to - i + 1), adds
\* Power(to - from + 1, 1) to the power of the plan and returns.
C22_Shortcut ==
    op = "compress"
        => \A to_byte \in 0..(Len(data) - 1) :
               \A from_byte \in 0..to_byte :
                   LET st == FirstShortcut(bytes_info, from_byte, to_byte)
                   IN  st.i <= to_byte
                           => TakesShortcut(bytes_info, from_byte, to_byte, st)

\* some part plan took the shortcut past its first byte with raw bytes
\* pending, and some other took it after a committed description
C22_Witness ==
    /\ op = "compress"
    /\ \E to_byte \in 0..(Len(data) - 1) :
           \E from_byte \in 0..to_byte :
               LET st == FirstShortcut(bytes_info, from_byte, to_byte)
               IN  /\ st.i <= to_byte
                   /\ st.i > from_byte
                   /\ st.just_copy_amount > 0
    /\ \E to_byte \in 0..(Len(data) - 1) :
           \E from_byte \in 0..to_byte :
               LET st == FirstShortcut(bytes_info, from_byte, to_byte)
               IN  /\ st.i <= to_byte
                   /\ st.just_copy_amount = 0
                   /\ st.part_compress.descriptions # <<>>

\* the candidate the claim says the planner commits at sweep position i of
\* a part ending at to_byte, where the shortcut does not apply: emitted is
\* FALSE when the byte joins the pending raw copy
ClaimedChoice(info, i, to_byte) ==
    LET zero == info.zero_compress
        copy == info.copy_compress
        storage == info.storage_compress
        zero_preferred ==
            /\ zero.decompressed_size > 0
            /\ \/ copy.decompressed_size > to_byte - i
               \/ range(zero) > range(copy)
        copy_preferred ==
            /\ zero.decompressed_size > 0
            /\ ~(\/ copy.decompressed_size > to_byte - i
                 \/ range(zero) > range(copy))
        Skipped(sc) ==
            ~zero_preferred /\ ~copy_preferred /\ range(sc) <= range(copy)
        candidates ==
            {j \in 1..Len(storage) :
                /\ storage[j].decompressed_size <= to_byte - i + 1
                /\ ~Skipped(storage[j])}
        sc == storage[CHOOSE j \in candidates : \A j2 \in candidates : j <= j2]
        Storage == [emitted |-> TRUE, power |-> sc,
                    method |-> IF sc.compressed_size = 2 THEN 16 ELSE 17]
        Zero == [emitted |-> TRUE, power |-> zero, method |-> 0]
        Copy == [emitted |-> TRUE, power |-> copy, method |-> 1]
        Raw == [emitted |-> FALSE]
    IN  IF candidates # {}
        THEN IF zero_preferred
             THEN IF range(sc) > range(zero) THEN Storage ELSE Zero
             ELSE IF range(sc) > range(copy) THEN Storage ELSE Copy
        ELSE IF zero_preferred THEN Zero
        ELSE IF copy_preferred THEN Copy
        ELSE Raw

\* the pass of the sweep from loop state st does what the claim says
StepAsClaimed(bi, from_byte, to_byte, st) ==
    LET i == st.i
        k == st.just_copy_amount
        before == st.part_compress
        choice == ClaimedChoice(bi[i + 1], i, to_byte)
        next == sweep_step(bi, from_byte, to_byte, st)
        after == next.part_compress
        new == Min(bi[i + 1].copy_compress.decompressed_size,
                   to_byte - i + 1)
    IN  IF choice.emitted
        THEN /\ after.descriptions
                    = before.descriptions
                          \o (IF k > 0 THEN <<Desc(i - k, k, MCopy)>>
                              ELSE <<>>)
                          \o <<Desc(i, choice.power.decompressed_size,
                                    choice.method)>>
             /\ after.power
                    = add(add(before.power,
                              IF k > 0 THEN Power(k, 1 + k) ELSE Power(0, 0)),
                          choice.power)
             /\ next.i = i + choice.power.decompressed_size
             /\ next.just_copy_amount = 0
        ELSE /\ next.i = i + new
             /\ next.just_copy_amount > 0
             /\ IF k + new > 32
                THEN /\ next.just_copy_amount = k + new - 32
                     /\ after.descriptions
                            = before.descriptions
                                  \o <<Desc(i - k, 32, MCopy)>>
                ELSE /\ next.just_copy_amount = k + new
                     /\ after.descriptions = before.descriptions

\* every pass of the sweep of compress_part(from_byte, to_byte) from loop
\* state st on, up to the shortcut or the end of the range
RECURSIVE SelectionHolds(_, _, _, _)
SelectionHolds(bi, from_byte, to_byte, st) ==
    IF st.i > to_byte \/ full_zero_run(bi, st.i, to_byte) THEN TRUE
    ELSE /\ StepAsClaimed(bi, from_byte, to_byte, st)
         /\ SelectionHolds(bi, from_byte, to_byte,
                           sweep_step(bi, from_byte, to_byte, st))

\* C23: candidate selection.  At every sweep position of every
\* compress_part(from, to) where the shortcut does not apply, the planner
\* commits the candidate the selection rule names: the first storage
\* candidate that fits and is not skipped, unless the preferred zero run
\* (ties included) or padded copy has the greater range; without such a
\* candidate the preferred zero run or padded copy; and only when nothing
\* is preferred does the byte join the pending raw copy.
C23_Selection ==
    op = "compress"
        => \A to_byte \in 0..(Len(data) - 1) :
               \A from_byte \in 0..to_byte :
                   SelectionHolds(bytes_info, from_byte, to_byte,
                       SweepState(from_byte,
                                  CompressData(Power(0, 0), <<>>), 0))

\* at the first position of some part a zero run is preferred and a
\* storage candidate that fits has the same range, and at the first
\* position of some part a storage candidate beats the preferred zero run
C23_Witness ==
    /\ op = "compress"
    /\ \E to_byte \in 0..(Len(data) - 1) :
           LET info == bytes_info[1]
           IN  /\ ~full_zero_run(bytes_info, 0, to_byte)
               /\ zero_bytes_amount_at(info, 0, to_byte) > 0
               /\ \E j \in 1..Len(info.storage_compress) :
                      /\ j = committed_storage(info, 0, to_byte, 1)
                      /\ range(info.storage_compress[j])
                             = range(info.zero_compress)
    /\ \E to_byte \in 0..(Len(data) - 1) :
           LET info == bytes_info[1]
           IN  /\ ~full_zero_run(bytes_info, 0, to_byte)
               /\ is_padding_with_copy_at(info, 0, to_byte)
               /\ committed_storage(info, 0, to_byte, 1) # 0

\* Best[k] of the source (the table of the model is 1-based)
Best(k) == best[k + 1]

\* the seed of Best[i]: Best[i - 1] extended by a single-byte copy at i
SeedPlan(i) ==
    CompressData(add(Best(i - 1).power, Power(1, 2)),
                 Best(i - 1).descriptions \o <<Desc(i, 1, MCopy)>>)

\* the candidate of start offset j for Best[i]: Best[j - 1], or the empty
\* plan when j = 0, followed by compress_part(j, i)
WindowPlan(i, j) ==
    LET part == compress_part(bytes_info, j, i)
        prefix == IF j = 0 THEN CompressData(Power(0, 0), <<>>)
                  ELSE Best(j - 1)
    IN  CompressData(add(prefix.power, part.power),
                     prefix.descriptions \o part.descriptions)

\* the plans examined for Best[i], in the order of examination: the seed,
\* then the candidates of j = i, i - 1, .. max(0, i - 63)
ExaminedPlans(i) ==
    [m \in 1..(i - Max(0, i - 63) + 2) |->
        IF m = 1 THEN SeedPlan(i) ELSE WindowPlan(i, i - (m - 2))] \o <<>>

\* the first plan of a list that attains the greatest range of the list
EarliestBest(plans) ==
    plans[CHOOSE m \in 1..Len(plans) :
              /\ \A m2 \in 1..Len(plans) :
                     range(plans[m2].power) <= range(plans[m].power)
              /\ \A m2 \in 1..(m - 1) :
                     range(plans[m2].power) < range(plans[m].power)]

\* C24: DP step.  For every i in 1..N-1, Best[i] is the earliest plan, in
\* the order seed, j = i, i - 1, .. max(0, i - 63), that attains the
\* greatest total range among the seed and the candidates Best[j - 1]
\* followed by compress_part(j, i); no start offset below i - 63 counts.
C24_DPStep ==
    op = "compress"
        => \A i \in 1..(Len(data) - 1) :
               Best(i) = EarliestBest(ExaminedPlans(i))

\* some entry past the window was built from a start offset inside it while
\* the start offset 0, outside the window, has a plan of greater range
C24_Witness ==
    /\ op = "compress"
    /\ \E i \in 64..(Len(data) - 1) :
           /\ Best(i) # SeedPlan(i)
           /\ range(WindowPlan(i, 0).power) > range(Best(i).power)

\* the start offset of entry m >= 2 of ExaminedPlans(i)
OffsetOf(i, m) == i - (m - 2)

\* in the list of plans examined for Best[i], the candidates at m1 and m2
\* are those of two start offsets j1 < j2 (so m1 > m2 >= 2); they have the
\* same range and no plan of the list has a greater one
TieAtBest(plans, m1, m2) ==
    /\ 2 <= m2 /\ m2 < m1
    /\ range(plans[m1].power) = range(plans[m2].power)
    /\ \A m \in 1..Len(plans) :
           range(plans[m].power) <= range(plans[m1].power)

\* the candidate, among those of the range of plans[m1], of the greatest
\* start offset
OfLastOffset(plans, m1) ==
    plans[CHOOSE m \in 2..Len(plans) :
              /\ range(plans[m].power) = range(plans[m1].power)
              /\ \A m2 \in 2..(m - 1) :
                     range(plans[m2].power) # range(plans[m1].power)]

\* what the claim says of the plans examined for Best[i]
SmallerOffsetWins(i, plans) ==
    \A m1 \in 3..Len(plans) :
        \A m2 \in 2..(m1 - 1) :
            TieAtBest(plans, m1, m2) => Best(i) = plans[m1]

LargerOffsetWins(i, plans) ==
    \A m1 \in 3..Len(plans) :
        \A m2 \in 2..(m1 - 1) :
            TieAtBest(plans, m1, m2)
                => Best(i) = IF range(plans[1].power) = range(plans[m1].power)
                             THEN plans[1]
                             ELSE OfLastOffset(plans, m1)

\* C25 as stated: when the candidates of two start offsets j1 < j2 tie at
\* the greatest total range, Best[i] is the plan of the smaller offset j1.
C25_SmallerOffsetWins ==
    op = "compress"
        => \A i \in 1..(Len(data) - 1) :
               SmallerOffsetWins(i, ExaminedPlans(i))

\* C25, amended: when the candidates of two start offsets j1 < j2 tie at
\* the greatest total range, Best[i] is the plan examined first among those
\* of that range: the seed when the seed attains it, and otherwise the
\* candidate of the greatest start offset attaining it (the larger j wins).
C25_LargerOffsetWins ==
    op = "compress"
        => \A i \in 1..(Len(data) - 1) :
               LargerOffsetWins(i, ExaminedPlans(i))

\* two start offsets tie at the greatest total range with different plans,
\* above the range of the seed, and Best[i] is the plan of the larger one
TieBroken(i, plans) ==
    \E m1 \in 3..Len(plans) :
        \E m2 \in 2..(m1 - 1) :
            /\ TieAtBest(plans, m1, m2)
            /\ range(plans[1].power) < range(plans[m1].power)
            /\ plans[m1] # plans[m2]
            /\ Best(i) = plans[m2]
            /\ OffsetOf(i, m1) < OffsetOf(i, m2)

C25_Witness ==
    /\ op = "compress"
    /\ \E i \in 1..(Len(data) - 1) : TieBroken(i, ExaminedPlans(i))

\* the index of the first non-zero byte of a block, 0 when it has none
FirstNonZero(block) ==
    IF \E k \in 1..Len(block) : block[k] # 0
    THEN (CHOOSE k \in 1..Len(block) :
              block[k] # 0 /\ \A k2 \in 1..(k - 1) : block[k2] = 0) - 1
    ELSE 0

\* the unit claimed for a 0x01 description (s, a) over the bytes d
CopyUnit(d, s, a) ==
    LET z == FirstNonZero(SubSeq(d, s + 1, s + a))
    IN  <<(a - z - 1) + 64 + (IF z > 0 THEN 32 ELSE 0)>>
            \o SubSeq(d, s + z + 1, s + a)

\* C26: copy emission.  For every 0x01 description (s, a) with 1 <= a <= 32
\* inside the input, zip emits the header (a - z - 1) + 64 + (32 if z > 0),
\* z the index of the first non-zero byte of B[s..s+a) (0 when the block
\* has none), then the a - z bytes B[s+z..s+a); the top two bits of the
\* header are 01 and a single non-zero byte b is emitted as 40 b.
C26_CopyEmission ==
    \A s \in 0..(Len(data) - 1) :
        \A a \in 1..Min(32, Len(data) - s) :
            LET unit == zip_one(data, lookup, Desc(s, a, MCopy))
            IN  /\ unit.ok
                /\ unit.val = CopyUnit(data, s, a)
                /\ unit.val[1] \div 64 = 1
                /\ (a = 1 /\ data[s + 1] # 0) => unit.val = <<64, data[s + 1]>>

\* compress returned a plan with a copy whose leading zero bytes are elided
\* and a copy of a single non-zero byte
C26_Witness ==
    /\ Compressed
    /\ \E m \in 1..Len(result.val.description) :
           LET description == result.val.description[m]
           IN  /\ description.method = MCopy
               /\ FirstNonZero(Covered(data, description)) > 0
    /\ \E m \in 1..Len(result.val.description) :
           LET description == result.val.description[m]
           IN  /\ description.method = MCopy
               /\ description.amount_bytes = 1
               /\ data[description.start_byte + 1] # 0

\* a pass of the sweep that does not return moves the index forward by at
\* least one byte and not past to_byte + 1
SweepAdvances ==
    (Sweeping /\ Sweeping')
        => /\ result'.val.sweep.i >= result.val.sweep.i + 1
           /\ result'.val.sweep.i <= result.val.to_byte + 1

\* every compress_part(j, i) of the DP returns within the passes modelled
PartsReturn ==
    op = "compress"
        => /\ result.ok
           /\ \A i \in 1..(Len(data) - 1) :
                  \A j \in Max(0, i - 63)..i :
                      sweep_end(bytes_info, j, i).returned

\* C27: termination.  Every pass of the sweep of compress_part advances the
\* index by at least 1 and never past to + 1, every call of compress_part
\* that has begun returns, and compress returns with every part plan of its
\* DP complete.
C27_Termination ==
    /\ [][SweepAdvances]_vars
    /\ Sweeping ~> (op = "compress_part" /\ result.val.sweep.returned)
    /\ []PartsReturn

\* a call of compress_part returned after its sweep committed three
\* descriptions or more
C27_Witness ==
    /\ op = "compress_part"
    /\ result.val.sweep.returned
    /\ result.val.from_byte < result.val.to_byte
    /\ Len(result.val.sweep.part_compress.descriptions) >= 3

\* C28: lookup consistency.  After any sequence of init_dict calls every
\* lookup entry key -> i has i < the length of the current dictionary and
\* key the trailing 32-, 31-, 20- or 4-byte slice of its word i.
C28_LookupConsistent ==
    dict # <<>>
        => \A key \in DOMAIN lookup :
               /\ Len(key) \in KeyLens
               /\ lookup[key] \in 0..(Len(dict) - 1)
               /\ TailBytes(dict[lookup[key] + 1], Len(key)) = key

=============================================================================
